---- MODULE Spec2Model ----
(***************************************************************************)
(* Vesting query and claim engine of vibecoin-mcp (src/lib/vesting.js).    *)
(*                                                                         *)
(* The source file holds two revisions of the module:                      *)
(*   abi = "getSchedule"  lines 1-438: the contract supplies the 5-tuple   *)
(*                        (total, released, releasable, start, end);       *)
(*   abi = "schedules"    lines 440-794: the contract supplies the 4-tuple *)
(*                        (total, released, start, duration) and the       *)
(*                        client computes releasable.                      *)
(* Both are modelled; abi is fixed per behaviour.                          *)
(*                                                                         *)
(* Each async function is cut at its awaits: one action per await, doing   *)
(* everything the code does up to the next await or return.                *)
(***************************************************************************)
EXTENDS Integers, Sequences, FiniteSets, TLC

\* ---------------------------------------------------------------- bounds
MaxAmount == 3
MaxStart == 1
MaxDuration == 3
MaxClock == 4
MaxHash == 1
MaxBlock == 1
MaxList == 2
MaxDecimals == 2
MaxElapsed == 30
MaxBaseUnits == 11

\* ------------------------------------------------------- program constants
\* 86400 seconds per day (vesting.js:174, 181)
SecondsPerDay == 86400
\* remainingDays > 30 switches the label to months (vesting.js:183-184)
DaysPerMonth == 30
\* decimals when the metadata read fails (vesting.js:74, 506)
DefaultDecimals == 18
\* the factor of the progress percentage (vesting.js:178, 572)
Percent == 100
\* significant bits of a Number: Number(amount) rounds to them (vesting.js:549)
MantissaBits == 53

Abis == {"getSchedule", "schedules"}

\* The scenario of spec section 8: total=1000, released=0, start=T, end=T+1000.
ExampleSchedule ==
    [totalAmount |-> 1000, releasedAmount |-> 0, startTime |-> 1, duration |-> 1000]
ExampleNow == ExampleSchedule.startTime + 500

\* Instants Date.now() (as whole seconds) may show.
Times == (0 .. MaxClock) \cup {ExampleNow}

\* Schedules the vesting manager contract may hold for (beneficiary, token):
\* endTime >= startTime and 0 <= releasedAmount <= totalAmount (uint256 fields,
\* released never exceeds the total).  totalAmount = 0 is "no schedule".
SmallSchedules ==
    { [totalAmount |-> t, releasedAmount |-> r, startTime |-> s, duration |-> d] :
        t \in 0 .. MaxAmount, r \in 0 .. MaxAmount, s \in 0 .. MaxStart,
        d \in 0 .. MaxDuration }
Schedules == { s \in SmallSchedules : s.releasedAmount <= s.totalAmount }
                 \cup {ExampleSchedule}

\* ------------------------------------------------------------ ScheduleModel
\* Which of the three branches lines 120-126 / 534-540 take.
VestedBranchStrict(now, startTime, endTime) ==
    IF now > endTime THEN "full"
    ELSE IF now < startTime THEN "none"
    ELSE "linear"

VestedBranch(now, startTime, endTime) ==
    IF now >= endTime THEN "full"
    ELSE IF now <= startTime THEN "none"
    ELSE "linear"

\* BigInt division truncates; a BigInt division by 0n throws RangeError.
DivisionByZero(now, startTime, endTime, durationBig) ==
    VestedBranch(now, startTime, endTime) = "linear" /\ durationBig = 0

\* The linear phase of lines 125 / 539 (durationBig > 0), and three slips of it:
\* rounding up, the time left in place of the time elapsed, the ratio inverted.
LinearVestedCeil(totalAmount, elapsed, durationBig) ==
    ((totalAmount * elapsed) + durationBig - 1) \div durationBig

LinearVestedRemaining(totalAmount, elapsed, durationBig) ==
    (totalAmount * (durationBig - elapsed)) \div durationBig

LinearVestedInverted(totalAmount, elapsed, durationBig) ==
    (totalAmount * durationBig) \div elapsed

LinearVested(totalAmount, elapsed, durationBig) ==
    (totalAmount * elapsed) \div durationBig

\* vestedAmount of lines 119-126 / 533-540.  The value when the division
\* throws is never used (the action takes the catch path).
VestedAmount(totalAmount, now, startTime, endTime, durationBig) ==
    LET b == VestedBranch(now, startTime, endTime) IN
    IF b = "full" THEN totalAmount
    ELSE IF b = "none" THEN 0
    ELSE IF durationBig = 0 THEN 0
    ELSE LinearVested(totalAmount, now - startTime, durationBig)

\* ------------------------------------------------- progress and time label
\* Math.ceil(a / b) for integers 0 <= a, 0 < b below 2^53: the double quotient
\* of two such integers never rounds across an integer, so the ceiling is exact.
\* (Before it, a slip that rounds down.)
CeilDivFloor(a, b) == a \div b

CeilDiv(a, b) == (a + b - 1) \div b

RECURSIVE DoubleMod(_, _, _)
\* (r * 2^n) mod b, by n doublings.
DoubleMod(r, b, n) == IF n = 0 THEN r ELSE DoubleMod((2 * r) % b, b, n - 1)

RECURSIVE BinExp(_, _, _)
\* The least E >= e with a * 2^(E - e) >= b (a is already scaled by 2^e).
BinExp(a, b, e) == IF a >= b THEN e ELSE BinExp(2 * a, b, e + 1)

RECURSIVE Pow2(_)
Pow2(n) == IF n = 0 THEN 1 ELSE 2 * Pow2(n - 1)

RECURSIVE Log2(_)
\* floor(log2 k) for k >= 1.
Log2(k) == IF k < 2 THEN 0 ELSE 1 + Log2(k \div 2)

\* The signed rounding error, in units of 1 / (b * 2^(E+52)), of the IEEE-754
\* double nearest to a / b (0 < a < b), where 2^-E <= a/b < 2^-(E-1):
\* a * 2^(E+52) = M * b + r; round to nearest, ties to even.
QuotientError(a, b) ==
    LET E == BinExp(a, b, 0)
        r == DoubleMod(a, b, E + 52)
        lastBit == (2 * DoubleMod(a, b, E + 51)) \div b
    IN  IF 2 * r < b THEN 0 - r
        ELSE IF 2 * r > b THEN b - r
        ELSE IF lastBit = 0 THEN 0 - r ELSE b - r

\* Math.floor((a / b) * 100) in IEEE-754 double arithmetic, 0 < a < b
\* (lines 177-179 / 572).  The product differs from floor(100a/b) only when
\* 100a/b is an integer k and the quotient was rounded down far enough for
\* the product to round to the double below k.
FloorPercent(a, b) ==
    LET k == (100 * a) \div b
        s == QuotientError(a, b)
        E == BinExp(a, b, 0)
        j == Log2(k)
        half == IF k = Pow2(j) THEN E + j - 2 ELSE E + j - 1
    IN  IF (100 * a) % b # 0 \/ s >= 0 THEN k
        ELSE IF half >= 6 THEN k
        ELSE IF 100 * (0 - s) > b * Pow2(half) THEN k - 1 ELSE k

\* Math.floor(NaN) printed as "NaN%": the value of vestingProgress if 0/0 were
\* ever evaluated (durationNum = 0 in the last branch of lines 168-186).
NaNPercent == 0 - 1

VestingProgress(nowNum, startTimeNum, endTimeNum) ==
    IF nowNum >= endTimeNum THEN 100
    ELSE IF nowNum <= startTimeNum THEN 0
    ELSE IF endTimeNum - startTimeNum = 0 THEN NaNPercent
    ELSE FloorPercent(nowNum - startTimeNum, endTimeNum - startTimeNum)

\* timeRemaining of lines 166-186 / 563-578, as (kind, n).
TimeRemaining(nowNum, startTimeNum, endTimeNum) ==
    IF nowNum >= endTimeNum THEN [kind |-> "Fully vested", n |-> 0]
    ELSE IF nowNum <= startTimeNum
    THEN [kind |-> "Starts in", n |-> CeilDiv(startTimeNum - nowNum, SecondsPerDay)]
    ELSE LET remainingDays == CeilDiv(endTimeNum - nowNum, SecondsPerDay) IN
         IF remainingDays > DaysPerMonth
         THEN [kind |-> "months remaining", n |-> remainingDays \div DaysPerMonth]
         ELSE [kind |-> "days remaining", n |-> remainingDays]

\* ------------------------------------------------------------ collaborators
\* What a rejected ledger call (ethers) carries, by what the catch blocks test:
\*   "revert"  message includes "execution reverted" or "call revert"
\*   "auth"    message includes "Unsupported state" or "auth"
\*   "other"   a message with none of these substrings
\*   "nomsg"   a thrown object with no message property
Faults == {"revert", "auth", "other", "nomsg"}

\* wallet.js: hasWallet() and getWalletAddress() both answer from the stored
\* wallet; getDecryptedWallet(password) returns {success: false, error} on a
\* bad password and {success: true, wallet} otherwise.
getWalletAddress(walletStored) == [success |-> walletStored]
getDecryptedWallet(walletStored, passwordOk) ==
    IF walletStored /\ passwordOk
    THEN [success |-> TRUE, error |-> ""]
    ELSE [success |-> FALSE, error |-> "InvalidPassword"]

\* ------------------------------------------------------------------- state
VARIABLES
    abi,        \* which revision of vesting.js runs
    hasWallet,  \* wallet store: a wallet is stored
    ledger,     \* on chain: the schedule of (beneficiary, token), the balance
    clock,      \* the last instant Date.now() showed to the current call (s)
    op,         \* the exported function being executed
    pc,         \* its position: the await it is suspended at
    meta,       \* token metadata: "none", "read" (decimals a BigInt), "default"
    sched,      \* the schedule tuple as read
    snap,       \* the derived snapshot (vested, releasable, locked, progress)
    tx,         \* the release transaction: submissions, hash, receipt
    log,        \* collaborator steps performed by the current call, in order
    result,     \* what the call returned
    batch,      \* getAllVestingInfo: its input, loop position, results, return
    calc,       \* the display arithmetic applied to drawn inputs
    launch      \* launchCoin (src/unnamed/part_000): its position and return

vestingVars ==
    <<abi, hasWallet, ledger, clock, op, pc, meta, sched, snap, tx, log, result>>
vars == <<vestingVars, batch, calc, launch>>

NoSched ==
    [totalAmount |-> 0, releasedAmount |-> 0, releasable |-> 0,
     startTime |-> 0, endTime |-> 0, duration |-> 0]
NoLabel == [kind |-> "", n |-> 0]
NoSnap ==
    [now |-> 0, nowNum |-> 0, vestedAmount |-> 0, releasable |-> 0,
     unreleased |-> 0, progress |-> 0, timeRemaining |-> NoLabel,
     computed |-> FALSE, divByZero |-> FALSE]
\* submits: calls of release(); landed: the release was executed on chain.
NoTx ==
    [submits |-> 0, hash |-> 0, confirmed |-> FALSE, landed |-> FALSE,
     receipt |-> [hash |-> 0, blockNumber |-> 0]]
NoRaw ==
    [totalAmount |-> 0, releasedAmount |-> 0, releasableAmount |-> 0,
     lockedAmount |-> 0]
\* status: "pending" while the call runs, "returned" once its promise resolved,
\* "threw" when it rejected (an exception escaped the function).
NoResult ==
    [status |-> "pending", success |-> FALSE, error |-> "",
     raw |-> NoRaw, progress |-> 0, timeRemaining |-> NoLabel,
     rawAmount |-> 0, transaction |-> [hash |-> 0, blockNumber |-> 0],
     newBalance |-> 0]

Failure(error) == [NoResult EXCEPT !.status = "returned", !.error = error]
Threw == [NoResult EXCEPT !.status = "threw", !.error = "TypeError"]

\* getAllVestingInfo between calls.  input: the argument, one entry per token
\* address (TRUE: a well-formed address); isList: Array.isArray(tokenAddresses);
\* queried: the positions handed to getVestingInfo, in order; outcomes: whether
\* each of these calls returned success; results: the positions whose result
\* was pushed (a result stands for the position of its token address).
NoBatch ==
    [pc |-> "idle", isList |-> TRUE, input |-> <<>>, i |-> 0,
     queried |-> <<>>, outcomes |-> <<>>, results |-> <<>>,
     status |-> "pending", success |-> FALSE, error |-> "",
     schedules |-> <<>>, totalSchedules |-> 0]

NoDecimal == [intPart |-> <<>>, decPart |-> <<>>]
\* The display arithmetic: nothing drawn, nothing computed.
NoCalc ==
    [fn |-> "none", done |-> FALSE,
     nowNum |-> 0, startTimeNum |-> 0, endTimeNum |-> 0,
     progress |-> 0, timeRemaining |-> NoLabel,
     revision |-> "", amount |-> <<>>, decimals |-> 0,
     threw |-> FALSE, decoded |-> NoDecimal]

\* The coin of a launch result.  Addresses, hashes and supplies are numbers,
\* 0 for a field that is absent (undefined); url, github and description are
\* TRUE when given (null otherwise).  name, symbol and creator are the caller's
\* own in every result and are left out.
NoCoin ==
    [contractAddress |-> 0, transactionHash |-> 0, totalSupply |-> 0,
     status |-> "", url |-> FALSE, github |-> FALSE, description |-> FALSE]
NoLaunchResult ==
    [status |-> "pending", success |-> FALSE, error |-> "", message |-> "",
     coin |-> NoCoin, note |-> "", action_required |-> ""]
NoOptions ==
    [name |-> FALSE, symbol |-> FALSE, url |-> FALSE, github |-> FALSE,
     description |-> FALSE]
\* launchCoin before it is called.  posted: fetch() was called; unreachable:
\* fetch() rejected, no response came from the launch endpoint.
NoLaunch ==
    [pc |-> "idle", options |-> NoOptions, posted |-> FALSE,
     unreachable |-> FALSE, responseOk |-> FALSE, result |-> NoLaunchResult]

Init ==
    /\ abi \in Abis
    /\ hasWallet \in BOOLEAN
    /\ ledger \in [schedule : Schedules, balance : {0}]
    /\ clock = 0
    /\ op = "none"
    /\ pc = "idle"
    /\ meta = "none"
    /\ sched = NoSched
    /\ snap = NoSnap
    /\ tx = NoTx
    /\ log = <<>>
    /\ result = NoResult
    /\ batch = NoBatch
    /\ calc = NoCalc
    /\ launch = NoLaunch

Step(name, ok) == [step |-> name, ok |-> ok]

\* The vesting manager contract's own vestedAmount view (ABI lines 16-18 /
\* 452-453) at the chain's time: linear between start and start + duration.
ChainVested(s, chainNow) ==
    IF chainNow >= s.startTime + s.duration THEN s.totalAmount
    ELSE IF chainNow <= s.startTime THEN 0
    ELSE (s.totalAmount * (chainNow - s.startTime)) \div s.duration

\* The chain's time is one at which what was released had vested.
ChainTimeOk(chainNow) ==
    ChainVested(ledger.schedule, chainNow) >= ledger.schedule.releasedAmount

\* The tuple the contract's view function returns (lines 85, 96-100 / 510-514,
\* 528-531).  getSchedule supplies releasable, computed at the chain's time.
ReadSchedule(chainNow) ==
    LET s == ledger.schedule IN
    [totalAmount |-> s.totalAmount, releasedAmount |-> s.releasedAmount,
     releasable |-> IF abi = "getSchedule"
                    THEN ChainVested(s, chainNow) - s.releasedAmount ELSE 0,
     startTime |-> s.startTime, endTime |-> s.startTime + s.duration,
     duration |-> s.duration]

\* The test of lines 103 / 314 / 517 / 678 for "no schedule", and a slip of it
\* that takes every tuple for a schedule.
ScheduleAbsentNever(totalAmount) == FALSE

ScheduleAbsent(totalAmount) == totalAmount = 0

\* formatAmount of the "schedules" revision (lines 548-549, 715-717) evaluates
\* Math.pow(10, decimals): a TypeError when decimals is the BigInt that
\* token.decimals() returned, fine when it is the default 18.
FormatThrows == abi = "schedules" /\ meta = "read"

\* ------------------------------------------------------------ catch blocks
\* getVestingInfo's outer catch (lines 215-235 / 608-623).
GetCatch(f) ==
    IF f = "nomsg"
    THEN IF abi = "getSchedule" THEN Failure("QueryFailed") ELSE Threw
    ELSE IF f = "revert" THEN Failure("NoScheduleForWallet")
    ELSE Failure("QueryFailed")

\* claimVestedTokens' outer catch (lines 381-406 / 747-765).
ClaimCatch(f) ==
    IF f = "nomsg" THEN Threw
    ELSE IF f = "auth" THEN Failure("InvalidPassword")
    ELSE IF f = "revert" THEN Failure("TransactionReverted")
    ELSE Failure("ClaimFailed")

\* ------------------------------------------------------- derived snapshot
DurationBig(s) == IF abi = "getSchedule" THEN s.endTime - s.startTime ELSE s.duration
EndTime(s) == IF abi = "getSchedule" THEN s.endTime ELSE s.startTime + s.duration

\* releasable: line 129 / 325 takes the contract's; line 542 / 703 computes it.
Releasable(s, vestedAmount) ==
    IF abi = "getSchedule" THEN s.releasable ELSE vestedAmount - s.releasedAmount

\* Lines 114-132 / 527-545 at the BigInt instant now, and lines 159-186 /
\* 556-578 at the second reading nowNum of the clock.
Snapshot(s, now, nowNum) ==
    LET vestedAmount ==
            VestedAmount(s.totalAmount, now, s.startTime, EndTime(s), DurationBig(s))
    IN  [now |-> now, nowNum |-> nowNum,
         vestedAmount |-> vestedAmount,
         releasable |-> Releasable(s, vestedAmount),
         unreleased |-> s.totalAmount - vestedAmount,
         progress |-> VestingProgress(nowNum, s.startTime, EndTime(s)),
         timeRemaining |-> TimeRemaining(nowNum, s.startTime, EndTime(s)),
         computed |-> TRUE,
         divByZero |-> FALSE]

\* The success payload of getVestingInfo (lines 188-214 / 580-606).
VestingInfo(s, sn) ==
    [NoResult EXCEPT
        !.status = "returned", !.success = TRUE,
        !.raw = [totalAmount |-> s.totalAmount,
                 releasedAmount |-> s.releasedAmount,
                 releasableAmount |-> sn.releasable,
                 lockedAmount |-> sn.unreleased],
        !.progress = sn.progress,
        !.timeRemaining = sn.timeRemaining]

\* ----------------------------------------------------------- getVestingInfo
\* Lines 34-61 / 470-493: resolve the wallet address, validate the token
\* address, build the provider and contracts; suspends at the metadata reads.
\* (Before it, a slip that unlocks the signing key as the claim does.)
GetVestingInfoCallUnlocking(tokenAddressOk) ==
    /\ op' = "getVestingInfo"
    /\ meta' = "none"
    /\ sched' = NoSched
    /\ snap' = NoSnap
    /\ tx' = NoTx
    /\ clock' = 0
    /\ IF ~getWalletAddress(hasWallet).success
       THEN pc' = "done" /\ result' = Failure("NoWallet") /\ log' = <<>>
       ELSE IF ~tokenAddressOk
       THEN pc' = "done" /\ result' = Failure("InvalidTokenAddress") /\ log' = <<>>
       ELSE /\ pc' = "metadata" /\ result' = NoResult
            /\ log' = <<Step("unlock", getDecryptedWallet(hasWallet, TRUE).success)>>
    /\ UNCHANGED <<abi, hasWallet, ledger>>

GetVestingInfoCall(tokenAddressOk) ==
    /\ op' = "getVestingInfo"
    /\ meta' = "none"
    /\ sched' = NoSched
    /\ snap' = NoSnap
    /\ tx' = NoTx
    /\ log' = <<>>
    /\ clock' = 0
    /\ IF ~getWalletAddress(hasWallet).success
       THEN pc' = "done" /\ result' = Failure("NoWallet")
       ELSE IF ~tokenAddressOk
       THEN pc' = "done" /\ result' = Failure("InvalidTokenAddress")
       ELSE pc' = "metadata" /\ result' = NoResult
    /\ UNCHANGED <<abi, hasWallet, ledger>>

\* getVestingInfo called on its own: no other call is in progress.
GetVestingInfoStart(tokenAddressOk) ==
    /\ pc \in {"idle", "done"}
    /\ batch.pc # "loop"
    /\ GetVestingInfoCall(tokenAddressOk)
    /\ batch' = NoBatch
    /\ UNCHANGED <<calc, launch>>

\* What lines 72-74 / 504-506 assign when a metadata read was rejected, and
\* what a token contract answers (its decimals within the bound).
DefaultTokenInfo ==
    [name |-> "Unknown", symbol |-> "UNKNOWN", decimals |-> DefaultDecimals]
ContractTokenInfo ==
    [name |-> "name()", symbol |-> "symbol()", decimals |-> MaxDecimals]
TokenInfo(m) == IF m = "default" THEN DefaultTokenInfo ELSE ContractTokenInfo

\* A slip of the handler below: a rejected metadata read ends the call.
GetVestingInfoMetadataFatal(ok) ==
    /\ op = "getVestingInfo" /\ pc = "metadata"
    /\ meta' = IF ok THEN "read" ELSE "none"
    /\ log' = Append(log, Step("metadata", ok))
    /\ pc' = IF ok THEN "schedule" ELSE "done"
    /\ result' = IF ok THEN result ELSE GetCatch("other")
    /\ UNCHANGED <<batch, calc, launch, abi, hasWallet, ledger, clock, op, sched, snap, tx>>

\* Lines 63-80 / 495-507: Promise.all of name, symbol, decimals; any rejection
\* is swallowed and the defaults are used.
GetVestingInfoMetadata(ok) ==
    /\ op = "getVestingInfo" /\ pc = "metadata"
    /\ meta' = IF ok THEN "read" ELSE "default"
    /\ log' = Append(log, Step("metadata", ok))
    /\ pc' = "schedule"
    /\ UNCHANGED <<batch, calc, launch, abi, hasWallet, ledger, clock, op, sched, snap, tx, result>>

\* Lines 82-93 / 510: the schedule read is rejected.  The first revision has
\* its own catch around the read; the second falls to the outer catch.
GetVestingInfoScheduleFault(f) ==
    /\ op = "getVestingInfo" /\ pc = "schedule"
    /\ log' = Append(log, Step("readSchedule", FALSE))
    /\ result' = IF abi = "getSchedule" THEN Failure("ScheduleFetchFailed")
                 ELSE GetCatch(f)
    /\ pc' = "done"
    /\ UNCHANGED <<batch, calc, launch, abi, hasWallet, ledger, clock, op, meta, sched, snap, tx>>

\* Lines 95-214 / 511-606: the schedule read resolves and the function runs to
\* its return.  Date.now() is read twice (lines 115 and 160 / 528 and 557);
\* the wall clock is taken not to step back between the two readings.
GetVestingInfoSchedule(chainNow, now, nowNum) ==
    /\ op = "getVestingInfo" /\ pc = "schedule"
    /\ IF abi = "getSchedule" THEN ChainTimeOk(chainNow) ELSE chainNow = 0
    /\ clock <= now /\ now <= nowNum
    /\ LET s == ReadSchedule(chainNow)
           sn == Snapshot(s, now, nowNum)
       IN  /\ sched' = s
           /\ IF ScheduleAbsent(s.totalAmount)
              THEN /\ log' = Append(log, Step("readSchedule", TRUE))
                   /\ result' = Failure("ScheduleNotFound")
                   /\ UNCHANGED <<snap, clock>>
              ELSE IF DivisionByZero(now, s.startTime, EndTime(s), DurationBig(s))
              THEN /\ log' = log \o <<Step("readSchedule", TRUE), Step("compute", FALSE)>>
                   /\ result' = GetCatch("other")
                   /\ snap' = [NoSnap EXCEPT !.now = now, !.divByZero = TRUE]
                   /\ clock' = now
              ELSE /\ log' = log \o <<Step("readSchedule", TRUE), Step("compute", TRUE)>>
                   /\ snap' = sn
                   /\ clock' = nowNum
                   /\ result' = IF FormatThrows THEN GetCatch("other")
                                ELSE VestingInfo(s, sn)
    /\ pc' = "done"
    /\ UNCHANGED <<batch, calc, launch, abi, hasWallet, ledger, op, meta, tx>>

\* -------------------------------------------------------- claimVestedTokens
\* Lines 688-703: the second revision computes releasable at the claim instant;
\* lines 324-325: the first takes the contract's and reads no clock.
ClaimSnapshot(s, now) ==
    LET vestedAmount ==
            VestedAmount(s.totalAmount, now, s.startTime, EndTime(s), DurationBig(s))
    IN  [NoSnap EXCEPT
            !.now = now, !.nowNum = now,
            !.vestedAmount = IF abi = "getSchedule" THEN 0 ELSE vestedAmount,
            !.releasable = Releasable(s, vestedAmount),
            !.computed = TRUE]

\* A slip of the payload below: the block number of the transaction response
\* (not yet mined: null) in place of the receipt's.
ClaimResultFromResponse(sn, receipt, newBalance) ==
    [NoResult EXCEPT
        !.status = "returned", !.success = TRUE,
        !.rawAmount = sn.releasable,
        !.transaction = [hash |-> receipt.hash, blockNumber |-> 0],
        !.newBalance = newBalance]

\* The success payload of claimVestedTokens (lines 360-380 / 727-745).
ClaimResult(sn, receipt, newBalance) ==
    [NoResult EXCEPT
        !.status = "returned", !.success = TRUE,
        !.rawAmount = sn.releasable,
        !.transaction = [hash |-> receipt.hash, blockNumber |-> receipt.blockNumber],
        !.newBalance = newBalance]

\* Lines 263 / 647: the test that ends the claim when the key did not unlock.
UnlockFailedIgnored(walletResult) == FALSE

UnlockFailed(walletResult) == ~walletResult.success

\* A slip of the handler below: the key is unlocked before the token address
\* is validated.
ClaimStartUnlockFirst(tokenAddressOk, passwordOk) ==
    /\ pc \in {"idle", "done"}
    /\ batch.pc # "loop"
    /\ op' = "claimVestedTokens"
    /\ meta' = "none"
    /\ sched' = NoSched
    /\ snap' = NoSnap
    /\ tx' = NoTx
    /\ clock' = 0
    /\ IF ~hasWallet
       THEN pc' = "done" /\ result' = Failure("NoWallet") /\ log' = <<>>
       ELSE LET walletResult == getDecryptedWallet(hasWallet, passwordOk) IN
            /\ log' = <<Step("unlock", walletResult.success)>>
            /\ IF UnlockFailed(walletResult)
               THEN pc' = "done" /\ result' = Failure(walletResult.error)
               ELSE IF ~tokenAddressOk
               THEN pc' = "done" /\ result' = Failure("InvalidTokenAddress")
               ELSE pc' = "metadata" /\ result' = NoResult
    /\ batch' = NoBatch
    /\ UNCHANGED <<calc, launch, abi, hasWallet, ledger>>

\* Lines 241-275 / 629-655: wallet check, address check, key unlock; suspends
\* at the metadata reads.
ClaimStart(tokenAddressOk, passwordOk) ==
    /\ pc \in {"idle", "done"}
    /\ batch.pc # "loop"
    /\ op' = "claimVestedTokens"
    /\ meta' = "none"
    /\ sched' = NoSched
    /\ snap' = NoSnap
    /\ tx' = NoTx
    /\ clock' = 0
    /\ IF ~hasWallet
       THEN pc' = "done" /\ result' = Failure("NoWallet") /\ log' = <<>>
       ELSE IF ~tokenAddressOk
       THEN pc' = "done" /\ result' = Failure("InvalidTokenAddress") /\ log' = <<>>
       ELSE LET walletResult == getDecryptedWallet(hasWallet, passwordOk) IN
            /\ log' = <<Step("unlock", walletResult.success)>>
            /\ IF UnlockFailed(walletResult)
               THEN pc' = "done" /\ result' = Failure(walletResult.error)
               ELSE pc' = "metadata" /\ result' = NoResult
    /\ batch' = NoBatch
    /\ UNCHANGED <<calc, launch, abi, hasWallet, ledger>>

\* Lines 277-294 / 657-669.
ClaimMetadata(ok) ==
    /\ op = "claimVestedTokens" /\ pc = "metadata"
    /\ meta' = IF ok THEN "read" ELSE "default"
    /\ log' = Append(log, Step("metadata", ok))
    /\ pc' = "schedule"
    /\ UNCHANGED <<batch, calc, launch, abi, hasWallet, ledger, clock, op, sched, snap, tx, result>>

\* A slip of the handler below: the rejected read is swallowed and the claim
\* goes on to the release.
ClaimScheduleFaultSwallowed(f) ==
    /\ op = "claimVestedTokens" /\ pc = "schedule"
    /\ log' = Append(log, Step("readSchedule", FALSE))
    /\ pc' = "release"
    /\ UNCHANGED <<batch, calc, launch, abi, hasWallet, ledger, clock, op, meta, sched, snap, tx, result>>

\* Lines 296-306 / 672: the schedule read is rejected.
ClaimScheduleFault(f) ==
    /\ op = "claimVestedTokens" /\ pc = "schedule"
    /\ log' = Append(log, Step("readSchedule", FALSE))
    /\ result' = IF abi = "getSchedule" THEN Failure("ScheduleFetchFailed")
                 ELSE ClaimCatch(f)
    /\ pc' = "done"
    /\ UNCHANGED <<batch, calc, launch, abi, hasWallet, ledger, clock, op, meta, sched, snap, tx>>

\* Whether lines 327 / 705 let the claim go on to the release.
NothingToClaimStrict(releasable) == releasable < 0

NothingToClaim(releasable) == releasable <= 0

\* Lines 307-354 / 673-721: the schedule read resolves; the function goes on
\* to the call of release(), where it suspends.
ClaimSchedule(chainNow, now) ==
    /\ op = "claimVestedTokens" /\ pc = "schedule"
    /\ IF abi = "getSchedule" THEN ChainTimeOk(chainNow) ELSE chainNow = 0
    /\ IF abi = "getSchedule" THEN now = clock ELSE clock <= now
    /\ LET s == ReadSchedule(chainNow)
           sn == ClaimSnapshot(s, now)
       IN  /\ sched' = s
           /\ IF ScheduleAbsent(s.totalAmount)
              THEN /\ log' = Append(log, Step("readSchedule", TRUE))
                   /\ result' = Failure("ScheduleNotFound")
                   /\ pc' = "done"
                   /\ UNCHANGED <<snap, clock>>
              ELSE IF abi = "schedules"
                      /\ DivisionByZero(now, s.startTime, EndTime(s), DurationBig(s))
              THEN /\ log' = log \o <<Step("readSchedule", TRUE), Step("compute", FALSE)>>
                   /\ result' = ClaimCatch("other")
                   /\ snap' = [NoSnap EXCEPT !.now = now, !.divByZero = TRUE]
                   /\ clock' = now
                   /\ pc' = "done"
              ELSE /\ log' = log \o <<Step("readSchedule", TRUE), Step("compute", TRUE)>>
                   /\ snap' = sn
                   /\ clock' = now
                   /\ IF NothingToClaim(sn.releasable)
                      THEN pc' = "done" /\ result' = Failure("NothingToClaim")
                      ELSE pc' = "release" /\ result' = NoResult
    /\ UNCHANGED <<batch, calc, launch, abi, hasWallet, ledger, op, meta, tx>>

\* The contract's release(): what is releasable moves from the schedule to the
\* beneficiary's balance.  The chain is taken to release the amount the claim
\* saw as releasable (lines 325 / 703), which is positive and not more than
\* what is left of the schedule.
Released ==
    [schedule |-> [ledger.schedule EXCEPT !.releasedAmount = @ + snap.releasable],
     balance |-> ledger.balance + snap.releasable]

\* Line 354 / 721: release() resolves with the transaction response.
ClaimRelease(hash) ==
    /\ op = "claimVestedTokens" /\ pc = "release"
    /\ tx' = [tx EXCEPT !.submits = @ + 1, !.hash = hash]
    /\ log' = Append(log, Step("submit", TRUE))
    /\ pc' = "wait"
    /\ UNCHANGED <<batch, calc, launch, abi, hasWallet, ledger, clock, op, meta, sched, snap, result>>

\* Line 354 / 721: release() rejects (gas estimation reverts, the endpoint
\* fails).  Unless it reverted, the transaction may still have gone out.
ClaimReleaseFault(f, landed) ==
    /\ op = "claimVestedTokens" /\ pc = "release"
    /\ landed => f # "revert"
    /\ tx' = [tx EXCEPT !.submits = @ + 1, !.landed = landed]
    /\ ledger' = IF landed THEN Released ELSE ledger
    /\ log' = Append(log, Step("submit", FALSE))
    /\ result' = ClaimCatch(f)
    /\ pc' = "done"
    /\ UNCHANGED <<batch, calc, launch, abi, hasWallet, clock, op, meta, sched, snap>>

\* Line 355 / 722: tx.wait() resolves with the receipt of the mined release.
ClaimWait(blockNumber) ==
    /\ op = "claimVestedTokens" /\ pc = "wait"
    /\ tx' = [tx EXCEPT !.confirmed = TRUE, !.landed = TRUE,
                        !.receipt = [hash |-> tx.hash, blockNumber |-> blockNumber]]
    /\ ledger' = Released
    /\ log' = Append(log, Step("confirm", TRUE))
    /\ pc' = "balance"
    /\ UNCHANGED <<batch, calc, launch, abi, hasWallet, clock, op, meta, sched, snap, result>>

\* A slip of the handler below: a failed wait sends the release again.
ClaimWaitFaultRetry(f, landed) ==
    /\ op = "claimVestedTokens" /\ pc = "wait"
    /\ landed => f # "revert"
    /\ tx' = [tx EXCEPT !.landed = landed]
    /\ ledger' = IF landed THEN Released ELSE ledger
    /\ log' = Append(log, Step("confirm", FALSE))
    /\ pc' = "release"
    /\ UNCHANGED <<batch, calc, launch, abi, hasWallet, clock, op, meta, sched, snap, result>>

\* Line 355 / 722: tx.wait() rejects: the release reverted on chain, or the
\* wait itself failed while the transaction was (or was not) mined.
ClaimWaitFault(f, landed) ==
    /\ op = "claimVestedTokens" /\ pc = "wait"
    /\ landed => f # "revert"
    /\ tx' = [tx EXCEPT !.landed = landed]
    /\ ledger' = IF landed THEN Released ELSE ledger
    /\ log' = Append(log, Step("confirm", FALSE))
    /\ result' = ClaimCatch(f)
    /\ pc' = "done"
    /\ UNCHANGED <<batch, calc, launch, abi, hasWallet, clock, op, meta, sched, snap>>

\* Lines 357-380 / 724-745: balanceOf resolves and the result is assembled.
ClaimBalance ==
    /\ op = "claimVestedTokens" /\ pc = "balance"
    /\ log' = Append(log, Step("balance", TRUE))
    /\ result' = IF FormatThrows THEN ClaimCatch("other")
                 ELSE ClaimResult(snap, tx.receipt, ledger.balance)
    /\ pc' = "done"
    /\ UNCHANGED <<batch, calc, launch, abi, hasWallet, ledger, clock, op, meta, sched, snap, tx>>

\* Line 358 / 725: balanceOf rejects.
ClaimBalanceFault(f) ==
    /\ op = "claimVestedTokens" /\ pc = "balance"
    /\ log' = Append(log, Step("balance", FALSE))
    /\ result' = ClaimCatch(f)
    /\ pc' = "done"
    /\ UNCHANGED <<batch, calc, launch, abi, hasWallet, ledger, clock, op, meta, sched, snap, tx>>

\* --------------------------------------------------------- getAllVestingInfo
\* Lines 417 / 773: the argument is rejected.
InvalidInputNotList(isList, input) == ~isList

InvalidInput(isList, input) == ~isList \/ Len(input) = 0

\* Lines 427-429 / 783-785: only a successful result is pushed.
Collect(results, i, r) == IF r.success THEN Append(results, i) ELSE results

\* Lines 432-437 / 788-793.
BatchReturn(b, results) ==
    [b EXCEPT !.pc = "done", !.status = "returned", !.success = TRUE,
              !.results = results, !.schedules = results,
              !.totalSchedules = Len(results)]

\* The call frame of getAllVestingInfo itself: it makes no collaborator call.
BatchFrame ==
    /\ op' = "getAllVestingInfo"
    /\ pc' = "done"
    /\ meta' = "none"
    /\ sched' = NoSched
    /\ snap' = NoSnap
    /\ tx' = NoTx
    /\ log' = <<>>
    /\ clock' = 0
    /\ result' = NoResult
    /\ UNCHANGED <<abi, hasWallet, ledger>>

\* Lines 413-426 / 772-782: the argument check, then the first turn of the
\* loop up to its await of getVestingInfo (which runs to its own first await).
GetAllStart(isList, input) ==
    /\ pc \in {"idle", "done"}
    /\ batch.pc # "loop"
    /\ isList \/ input = <<>>
    /\ LET b == [NoBatch EXCEPT !.isList = isList, !.input = input] IN
       IF InvalidInput(isList, input)
       THEN /\ batch' = [b EXCEPT !.pc = "done", !.status = "returned",
                                  !.error = "InvalidInput"]
            /\ BatchFrame
       ELSE IF Len(input) = 0
       THEN /\ batch' = BatchReturn(b, <<>>)
            /\ BatchFrame
       ELSE /\ batch' = [b EXCEPT !.pc = "loop", !.i = 1, !.queried = <<1>>]
            /\ GetVestingInfoCall(input[1])
    /\ UNCHANGED <<calc, launch>>

\* Lines 426-437 / 782-793: the awaited getVestingInfo settled.  A rejection
\* is rethrown by the await and nothing catches it; a result is pushed when
\* it is a success, and the loop goes to the next address or the return.
GetAllResume ==
    /\ batch.pc = "loop" /\ op = "getVestingInfo" /\ pc = "done"
    /\ IF result.status = "threw"
       THEN /\ batch' = [batch EXCEPT !.pc = "done", !.status = "threw",
                                      !.outcomes = Append(@, FALSE)]
            /\ UNCHANGED vestingVars
       ELSE LET results == Collect(batch.results, batch.i, result)
                b == [batch EXCEPT !.results = results,
                                   !.outcomes = Append(@, result.success)]
            IN  IF batch.i < Len(batch.input)
                THEN /\ batch' = [b EXCEPT !.i = @ + 1,
                                           !.queried = Append(@, batch.i + 1)]
                     /\ GetVestingInfoCall(batch.input[batch.i + 1])
                ELSE /\ batch' = BatchReturn(b, results)
                     /\ UNCHANGED vestingVars
    /\ UNCHANGED <<calc, launch>>

\* ------------------------------------------------------------ specification
Next ==
    \/ \E a \in BOOLEAN : GetVestingInfoStart(a)
    \/ \E ok \in BOOLEAN : GetVestingInfoMetadata(ok)
    \/ \E f \in Faults : GetVestingInfoScheduleFault(f)
    \/ \E c \in Times, n1 \in Times, n2 \in Times :
          GetVestingInfoSchedule(c, n1, n2)
    \/ \E a \in BOOLEAN, p \in BOOLEAN : ClaimStart(a, p)
    \/ \E ok \in BOOLEAN : ClaimMetadata(ok)
    \/ \E f \in Faults : ClaimScheduleFault(f)
    \/ \E c \in Times, n \in Times : ClaimSchedule(c, n)
    \/ \E h \in 1 .. MaxHash : ClaimRelease(h)
    \/ \E f \in Faults, l \in BOOLEAN : ClaimReleaseFault(f, l)
    \/ \E b \in 1 .. MaxBlock : ClaimWait(b)
    \/ \E f \in Faults, l \in BOOLEAN : ClaimWaitFault(f, l)
    \/ ClaimBalance
    \/ \E f \in Faults : ClaimBalanceFault(f)

Spec == Init /\ [][Next]_vars

\* The batch query, over a ledger holding no schedule or one whole schedule,
\* with single queries and claims between the batches.
BatchSchedules ==
    { s \in SmallSchedules :
        /\ s.releasedAmount = 0 /\ s.startTime = 0
        /\ s.totalAmount \in {0, MaxAmount}
        /\ s.duration \in {0, MaxDuration} }

\* Lists of up to MaxList token addresses.
BatchInputs == UNION { [1 .. n -> BOOLEAN] : n \in 0 .. MaxList }

InitBatch ==
    /\ abi \in Abis
    /\ hasWallet \in BOOLEAN
    /\ ledger \in [schedule : BatchSchedules, balance : {0}]
    /\ clock = 0
    /\ op = "none"
    /\ pc = "idle"
    /\ meta = "none"
    /\ sched = NoSched
    /\ snap = NoSnap
    /\ tx = NoTx
    /\ log = <<>>
    /\ result = NoResult
    /\ batch = NoBatch
    /\ calc = NoCalc
    /\ launch = NoLaunch

NextBatch ==
    \/ Next
    \/ \E isList \in BOOLEAN, input \in BatchInputs : GetAllStart(isList, input)
    \/ GetAllResume

SpecBatch == InitBatch /\ [][NextBatch]_vars

\* ------------------------------------------------------- display arithmetic
\* The progress percentage, the time label and formatAmount are functions of
\* their arguments; SpecCalc draws the arguments and applies the functions.
DayMarks == {0, 1, DaysPerMonth, DaysPerMonth + 1, 2 * DaysPerMonth + 1}
CalcStarts == (0 .. MaxStart) \cup {SecondsPerDay, 2 * SecondsPerDay + 1}
CalcDurations ==
    (0 .. MaxDuration) \cup {Percent}
        \cup { d * SecondsPerDay : d \in DayMarks \ {0} }
CalcInstants ==
    (0 .. MaxElapsed) \cup { d * SecondsPerDay + e : d \in DayMarks, e \in {0, 1} }

ProgressInputs ==
    { [NoCalc EXCEPT !.fn = "progress", !.nowNum = n, !.startTimeNum = st,
                     !.endTimeNum = st + d] :
        n \in CalcInstants, st \in CalcStarts, d \in CalcDurations }

\* A base-unit amount as amount.toString() gives it: decimal digits, the most
\* significant first, no leading zero.
RECURSIVE ToDigits(_)
ToDigits(n) == IF n < 10 THEN <<n>> ELSE Append(ToDigits(n \div 10), n % 10)

RECURSIVE Zeros(_)
\* "0".repeat(n)
Zeros(n) == IF n <= 0 THEN <<>> ELSE <<0>> \o Zeros(n - 1)

\* One token of 18 decimals in base units (10^18), and one base unit more.
BigAmounts ==
    { <<1>> \o Zeros(DefaultDecimals),
      <<1>> \o Zeros(DefaultDecimals - 1) \o <<1>> }
AmountStrings == { ToDigits(n) : n \in 0 .. MaxBaseUnits } \cup BigAmounts

\* The string handed to parseFloat by lines 138-151 / 340-349, as the digits
\* before and after its decimal point.
DecodeString(amountStr, decimalsNum) ==
    IF Len(amountStr) <= decimalsNum
    THEN [intPart |-> <<0>>,
          decPart |-> Zeros(decimalsNum - Len(amountStr)) \o amountStr]
    ELSE [intPart |-> SubSeq(amountStr, 1, Len(amountStr) - decimalsNum),
          decPart |-> SubSeq(amountStr, Len(amountStr) - decimalsNum + 1,
                             Len(amountStr))]

RECURSIVE Strip(_)
\* A digit string without its leading zeros.
Strip(ds) == IF Len(ds) > 1 /\ Head(ds) = 0 THEN Strip(Tail(ds)) ELSE ds

RECURSIVE Halve(_, _)
\* Long division by 2, c the carry from the left.
Halve(ds, c) ==
    IF ds = <<>> THEN <<>>
    ELSE <<(10 * c + Head(ds)) \div 2>> \o Halve(Tail(ds), (10 * c + Head(ds)) % 2)

RECURSIVE Bits(_)
\* The binary digits of a digit string, the least significant first.
Bits(ds) ==
    IF ds = <<0>> THEN <<>>
    ELSE <<ds[Len(ds)] % 2>> \o Bits(Strip(Halve(ds, 0)))

RECURSIVE ShiftRight(_, _)
\* floor(ds / 2^k)
ShiftRight(ds, k) == IF k = 0 THEN ds ELSE ShiftRight(Strip(Halve(ds, 0)), k - 1)

RECURSIVE DoublePlus(_, _)
\* 2 * ds + c on digit strings.
DoublePlus(ds, c) ==
    IF ds = <<>> THEN (IF c = 0 THEN <<>> ELSE <<c>>)
    ELSE Append(DoublePlus(SubSeq(ds, 1, Len(ds) - 1),
                           (2 * ds[Len(ds)] + c) \div 10),
                (2 * ds[Len(ds)] + c) % 10)

RECURSIVE ShiftLeft(_, _)
\* ds * 2^k
ShiftLeft(ds, k) == IF k = 0 THEN ds ELSE ShiftLeft(DoublePlus(ds, 0), k - 1)

RECURSIVE PlusOne(_)
PlusOne(ds) ==
    IF ds = <<>> THEN <<1>>
    ELSE IF ds[Len(ds)] < 9
    THEN Append(SubSeq(ds, 1, Len(ds) - 1), ds[Len(ds)] + 1)
    ELSE Append(PlusOne(SubSeq(ds, 1, Len(ds) - 1)), 0)

\* Number(amount) of lines 549 / 716: the nearest double, an integer.  An
\* amount of more than MantissaBits bits is rounded to that many, to nearest,
\* ties to even.
ToNumber(amountStr) ==
    LET bits == Bits(amountStr)
        k == Len(bits) - MantissaBits
    IN  IF k <= 0 THEN amountStr
        ELSE LET sticky == \E j \in 1 .. k - 1 : bits[j] = 1
                 up == bits[k] = 1 /\ (sticky \/ bits[k + 1] = 1)
                 kept == ShiftRight(amountStr, k)
             IN  ShiftLeft(IF up THEN PlusOne(kept) ELSE kept, k)

\* Number(amount) / Math.pow(10, decimals) of lines 549 / 716: the double
\* nearest to that quotient, written with the shortest decimal digits that
\* identify it.  For the amounts drawn here (Number(amount) below 10^15, or a
\* multiple of 10^decimals) these are the digits of Number(amount) with the
\* point decimals places from the right.
DecodeNumber(amountStr, decimals) == DecodeString(ToNumber(amountStr), decimals)

\* The amounts, digit counts and revisions formatAmount is applied to.  The
\* contract's decimals is within the bound; the default is 18.
DecodeInputs ==
    { [NoCalc EXCEPT !.fn = "decode", !.amount = a, !.decimals = d] :
        a \in AmountStrings, d \in (0 .. MaxDecimals) \cup {DefaultDecimals} }

InitCalc ==
    /\ abi \in Abis
    /\ meta \in {"read", "default"}
    /\ calc \in ProgressInputs \cup DecodeInputs
    /\ calc.fn = "progress" => (abi = "getSchedule" /\ meta = "read")
    /\ (calc.fn = "decode" /\ meta = "default") => calc.decimals = DefaultDecimals
    /\ (calc.fn = "decode" /\ meta = "read") => calc.decimals <= MaxDecimals
    /\ hasWallet = FALSE
    /\ ledger = [schedule |-> [totalAmount |-> 0, releasedAmount |-> 0,
                               startTime |-> 0, duration |-> 0],
                 balance |-> 0]
    /\ clock = 0
    /\ op = "none"
    /\ pc = "idle"
    /\ sched = NoSched
    /\ snap = NoSnap
    /\ tx = NoTx
    /\ log = <<>>
    /\ result = NoResult
    /\ batch = NoBatch
    /\ launch = NoLaunch

\* Lines 159-186 / 556-578 on the drawn instants.
CalcProgress ==
    /\ calc.fn = "progress" /\ ~calc.done
    /\ calc' = [calc EXCEPT
          !.done = TRUE,
          !.progress =
              VestingProgress(calc.nowNum, calc.startTimeNum, calc.endTimeNum),
          !.timeRemaining =
              TimeRemaining(calc.nowNum, calc.startTimeNum, calc.endTimeNum)]
    /\ UNCHANGED <<vestingVars, batch, launch>>

\* formatAmount up to the value it hands to the display rounding: lines
\* 138-151 / 340-349 in the first revision, 549 / 716 in the second.
CalcDecode ==
    /\ calc.fn = "decode" /\ ~calc.done
    /\ calc' = [calc EXCEPT
          !.done = TRUE,
          !.revision = abi,
          !.threw = FormatThrows,
          !.decoded =
              IF FormatThrows THEN NoDecimal
              ELSE IF abi = "getSchedule"
              THEN DecodeString(calc.amount, calc.decimals)
              ELSE DecodeNumber(calc.amount, calc.decimals)]
    /\ UNCHANGED <<vestingVars, batch, launch>>

NextCalc == CalcProgress \/ CalcDecode

SpecCalc == InitCalc /\ [][NextCalc]_vars

\* -------------------------------------------------------------- launchCoin
\* src/unnamed/part_000.  What a rejected fetch() or response.json() carries,
\* by what the catch block at lines 93-124 tests:
\*   "refused"  err.cause.code is 'ECONNREFUSED'
\*   "fetch"    err.message includes 'fetch' (undici: 'fetch failed')
\*   "other"    a message without 'fetch', no such cause
\*   "nomsg"    no message property and no cause
LaunchFaults == {"refused", "fetch", "other", "nomsg"}

\* What the launch endpoint answers in the body (lines 67-92): success, and the
\* fields the payload copies.
ApiResults ==
    [success : BOOLEAN, error : BOOLEAN, tokenAddress : 0 .. MaxHash,
     transactionHash : 0 .. MaxHash, totalSupply : 0 .. MaxAmount]

LaunchFailure(error) ==
    [NoLaunchResult EXCEPT !.status = "returned", !.error = error]

LaunchCoin(options, contractAddress, transactionHash, totalSupply) ==
    [contractAddress |-> contractAddress, transactionHash |-> transactionHash,
     totalSupply |-> totalSupply, status |-> "launched",
     url |-> options.url, github |-> options.github,
     description |-> options.description]

\* Lines 76-92: the payload of a launch the endpoint reported.
LaunchSuccess(options, api) ==
    [NoLaunchResult EXCEPT
        !.status = "returned", !.success = TRUE,
        !.message = "Coin launched successfully!",
        !.coin = LaunchCoin(options, api.tokenAddress, api.transactionHash,
                            api.totalSupply)]

\* A slip of the stub payload: built like the payload of a real launch.
LaunchStubAsReal(options, mockTxHash, mockContractAddress) ==
    [NoLaunchResult EXCEPT
        !.status = "returned", !.success = TRUE,
        !.message = "Coin launched successfully!",
        !.coin = LaunchCoin(options, mockContractAddress, mockTxHash, 0)]

\* Lines 98-117: the stub-mode payload, with random hash and address.
LaunchStub(options, mockTxHash, mockContractAddress) ==
    [NoLaunchResult EXCEPT
        !.status = "returned", !.success = TRUE,
        !.message = "Coin launched (STUB MODE - API not available)",
        !.coin = LaunchCoin(options, mockContractAddress, mockTxHash, 0),
        !.note = "Running in stub mode because deployment API is not available."]

\* The catch block, lines 93-124.
LaunchCatch(f, options, mockTxHash, mockContractAddress) ==
    IF f = "refused" \/ f = "fetch"
    THEN LaunchStub(options, mockTxHash, mockContractAddress)
    ELSE IF f = "nomsg"
    THEN [NoLaunchResult EXCEPT !.status = "threw", !.error = "TypeError"]
    ELSE LaunchFailure("Launch failed")

\* Lines 10-45: the checks of name, symbol, wallet and password, then the
\* message is built and wallet.signMessage() is awaited.
LaunchStart(options, passwordOk) ==
    /\ launch.pc \in {"idle", "done"}
    /\ LET l == [NoLaunch EXCEPT !.options = options]
           walletResult == getDecryptedWallet(hasWallet, passwordOk)
       IN  launch' =
             IF ~options.name
             THEN [l EXCEPT !.pc = "done", !.result = LaunchFailure("Name is required")]
             ELSE IF ~options.symbol
             THEN [l EXCEPT !.pc = "done", !.result = LaunchFailure("Symbol is required")]
             ELSE IF ~hasWallet
             THEN [l EXCEPT !.pc = "done",
                            !.result = [LaunchFailure("NoWallet") EXCEPT
                                           !.action_required = "create_wallet"]]
             ELSE IF ~walletResult.success
             THEN [l EXCEPT !.pc = "done", !.result = LaunchFailure(walletResult.error)]
             ELSE [l EXCEPT !.pc = "sign"]
    /\ UNCHANGED <<vestingVars, batch, calc>>

\* Lines 45-65: the signature arrives and the request is posted.
LaunchSign ==
    /\ launch.pc = "sign"
    /\ launch' = [launch EXCEPT !.pc = "fetch", !.posted = TRUE]
    /\ UNCHANGED <<vestingVars, batch, calc>>

\* Line 45: signMessage() rejects, outside the try block.
LaunchSignFault ==
    /\ launch.pc = "sign"
    /\ launch' = [launch EXCEPT
          !.pc = "done",
          !.result = [NoLaunchResult EXCEPT !.status = "threw", !.error = "Error"]]
    /\ UNCHANGED <<vestingVars, batch, calc>>

\* Lines 49-67: fetch() resolves with a response; its body is awaited.
LaunchFetch(ok) ==
    /\ launch.pc = "fetch"
    /\ launch' = [launch EXCEPT !.pc = "json", !.responseOk = ok]
    /\ UNCHANGED <<vestingVars, batch, calc>>

\* Lines 49, 93-124: fetch() rejects: the endpoint was not reached.
LaunchFetchFault(f, mockTxHash, mockContractAddress) ==
    /\ launch.pc = "fetch"
    /\ launch' = [launch EXCEPT
          !.pc = "done", !.unreachable = TRUE,
          !.result = LaunchCatch(f, launch.options, mockTxHash, mockContractAddress)]
    /\ UNCHANGED <<vestingVars, batch, calc>>

\* Lines 67-92: the body arrives.
LaunchJson(api) ==
    /\ launch.pc = "json"
    /\ launch' = [launch EXCEPT
          !.pc = "done",
          !.result =
              IF ~launch.responseOk \/ ~api.success
              THEN LaunchFailure(IF api.error THEN "result.error"
                                 ELSE "Failed to launch coin")
              ELSE LaunchSuccess(launch.options, api)]
    /\ UNCHANGED <<vestingVars, batch, calc>>

\* Lines 67, 93-124: response.json() rejects.
LaunchJsonFault(f, mockTxHash, mockContractAddress) ==
    /\ launch.pc = "json"
    /\ launch' = [launch EXCEPT
          !.pc = "done",
          !.result = LaunchCatch(f, launch.options, mockTxHash, mockContractAddress)]
    /\ UNCHANGED <<vestingVars, batch, calc>>

LaunchOptions ==
    [name : BOOLEAN, symbol : BOOLEAN, url : BOOLEAN, github : BOOLEAN,
     description : BOOLEAN]

InitLaunch ==
    /\ hasWallet \in BOOLEAN
    /\ launch = NoLaunch
    /\ abi = "getSchedule"
    /\ ledger = [schedule |-> [totalAmount |-> 0, releasedAmount |-> 0,
                               startTime |-> 0, duration |-> 0],
                 balance |-> 0]
    /\ clock = 0
    /\ op = "none"
    /\ pc = "idle"
    /\ meta = "none"
    /\ sched = NoSched
    /\ snap = NoSnap
    /\ tx = NoTx
    /\ log = <<>>
    /\ result = NoResult
    /\ batch = NoBatch
    /\ calc = NoCalc

NextLaunch ==
    \/ \E o \in LaunchOptions, p \in BOOLEAN : LaunchStart(o, p)
    \/ LaunchSign
    \/ LaunchSignFault
    \/ \E ok \in BOOLEAN : LaunchFetch(ok)
    \/ \E f \in LaunchFaults, h \in 1 .. MaxHash, a \in 1 .. MaxHash :
          LaunchFetchFault(f, h, a)
    \/ \E api \in ApiResults : LaunchJson(api)
    \/ \E f \in LaunchFaults, h \in 1 .. MaxHash, a \in 1 .. MaxHash :
          LaunchJsonFault(f, h, a)

SpecLaunch == InitLaunch /\ [][NextLaunch]_vars

\* ------------------------------------------------------------------ claims
Claiming == op = "claimVestedTokens"
Querying == op = "getVestingInfo"
Returned == result.status = "returned"

\* The steps of the current call other than the tolerated metadata read.
CoreLog == SelectSeq(log, LAMBDA e : e.step # "metadata")
ClaimOrder == <<"unlock", "readSchedule", "compute", "submit", "confirm", "balance">>
LedgerSteps == {"metadata", "readSchedule", "submit", "confirm", "balance"}
Did(name) == \E i \in 1 .. Len(log) : log[i].step = name
Failed(name) == \E i \in 1 .. Len(log) : log[i].step = name /\ ~log[i].ok

\* C1: in claimVestedTokens, whenever the releasable amount determined at claim
\* time is <= 0, the call returns NothingToClaim and no release transaction is
\* submitted on that call.
C1_NothingToClaimSubmitsNothing ==
    (Claiming /\ snap.computed /\ snap.releasable <= 0)
        => /\ pc = "done"
           /\ result = Failure("NothingToClaim")
           /\ tx.submits = 0
           /\ ~Did("submit")

C1_Witness ==
    /\ Claiming /\ snap.computed /\ snap.releasable <= 0
    /\ sched.totalAmount > 0
    /\ result.error = "NothingToClaim"

\* C2: when the wallet collaborator rejects the password, claimVestedTokens
\* returns InvalidPassword and no ledger operation (metadata read, schedule
\* read, release submission, confirmation wait, balance read) was performed.
C2_WrongPasswordTouchesNoLedger ==
    (Claiming /\ Failed("unlock"))
        => /\ pc = "done"
           /\ result = Failure("InvalidPassword")
           /\ \A i \in 1 .. Len(log) : log[i].step \notin LedgerSteps
           /\ meta = "none" /\ sched = NoSched /\ tx = NoTx

C2_Witness ==
    /\ Claiming /\ hasWallet /\ Failed("unlock")
    /\ result.error = "InvalidPassword"

\* C3: in every execution of claimVestedTokens, whatever faults occur, the
\* release is submitted at most once; exactly once on every execution that
\* returns success; never again after a failed submission or confirmation.
C3_OneSubmission ==
    Claiming =>
        /\ tx.submits <= 1
        /\ Len(SelectSeq(log, LAMBDA e : e.step = "submit")) = tx.submits
        /\ (Returned /\ result.success) => tx.submits = 1
        /\ (Failed("submit") \/ Failed("confirm")) => (pc = "done" /\ tx.submits = 1)

C3_Witness ==
    /\ Claiming /\ Failed("confirm") /\ tx.submits = 1 /\ pc = "done"

\* C4: within one claimVestedTokens call the steps occur only in the order
\* unlock -> read schedule -> compute releasable -> submit -> confirm ->
\* re-read balance; no step starts before every earlier one succeeded, and a
\* failed step prevents all later ones.
C4_StepsInOrder ==
    Claiming =>
        /\ Len(CoreLog) <= Len(ClaimOrder)
        /\ \A i \in 1 .. Len(CoreLog) :
              /\ CoreLog[i].step = ClaimOrder[i]
              /\ i < Len(CoreLog) => CoreLog[i].ok

C4_Witness ==
    /\ Claiming /\ Len(CoreLog) = Len(ClaimOrder)
    /\ CoreLog[Len(CoreLog)].ok

\* C5: claimVestedTokens returns success only after the release it submitted
\* was confirmed; never while it is unsubmitted or unconfirmed; the hash and
\* block number of the result are those of the confirmation receipt.
C5_SuccessOnlyAfterConfirmation ==
    /\ (Claiming /\ result.success)
         => /\ tx.submits = 1 /\ tx.confirmed
            /\ Did("confirm") /\ ~Failed("confirm")
            /\ result.transaction = tx.receipt
            /\ tx.receipt.hash = tx.hash
            /\ tx.receipt.blockNumber >= 1
            /\ result.rawAmount = snap.releasable
            /\ result.newBalance = ledger.balance
    /\ (Claiming /\ ~tx.confirmed) => ~result.success

C5_Witness ==
    /\ Claiming /\ Returned /\ result.success
    /\ tx.confirmed /\ result.transaction.blockNumber >= 1

\* The vested amount was computed by the current call: getVestingInfo always
\* does (lines 114-126 / 527-540); claimVestedTokens only in the "schedules"
\* revision (lines 688-701).
VestedComputed == snap.computed /\ (Querying \/ abi = "schedules")

\* The engine's vested amount for the schedule read, at instant n.
VestedAt(n) ==
    VestedAmount(sched.totalAmount, n, sched.startTime, EndTime(sched),
                 DurationBig(sched))

Monotone ==
    /\ \A n1 \in Times, n2 \in Times : n1 <= n2 => VestedAt(n1) <= VestedAt(n2)
    /\ \A n \in Times :
          /\ n <= snap.now => VestedAt(n) <= snap.vestedAmount
          /\ n >= snap.now => VestedAt(n) >= snap.vestedAmount

\* C6 as stated: for all schedules the vested amount is monotonically
\* non-decreasing in now, vested(startTime) = 0 and vested(endTime) = total.
C6_AsStated ==
    VestedComputed =>
        /\ Monotone
        /\ VestedAt(sched.startTime) = 0
        /\ VestedAt(EndTime(sched)) = sched.totalAmount
        /\ snap.now = sched.startTime => snap.vestedAmount = 0
        /\ snap.now = EndTime(sched) => snap.vestedAmount = sched.totalAmount

\* C6 (amended): the vested amount is monotonically non-decreasing in now and
\* vested(endTime) = totalAmount for all schedules; vested(startTime) = 0 when
\* endTime > startTime, and = totalAmount for a zero-duration schedule.
C6_MonotoneWithEndpoints ==
    VestedComputed =>
        /\ Monotone
        /\ VestedAt(EndTime(sched)) = sched.totalAmount
        /\ snap.now = EndTime(sched) => snap.vestedAmount = sched.totalAmount
        /\ EndTime(sched) > sched.startTime =>
              /\ VestedAt(sched.startTime) = 0
              /\ snap.now = sched.startTime => snap.vestedAmount = 0
        /\ EndTime(sched) = sched.startTime =>
              /\ VestedAt(sched.startTime) = sched.totalAmount
              /\ snap.now = sched.startTime => snap.vestedAmount = sched.totalAmount

C6_Witness ==
    /\ VestedComputed /\ sched.totalAmount > 1
    /\ sched.startTime < snap.now /\ snap.now < EndTime(sched)
    /\ 0 < snap.vestedAmount /\ snap.vestedAmount < sched.totalAmount

\* C7: for every schedule with totalAmount >= 0 and endTime > startTime and
\* every now in [startTime, endTime], 0 <= vested(now) <= totalAmount, hence
\* the locked amount totalAmount - vested is within [0, totalAmount] too.
C7_VestedWithinTotal ==
    (VestedComputed /\ EndTime(sched) > sched.startTime) =>
        /\ \A n \in Times :
              (sched.startTime <= n /\ n <= EndTime(sched))
                 => (0 <= VestedAt(n) /\ VestedAt(n) <= sched.totalAmount)
        /\ (sched.startTime <= snap.now /\ snap.now <= EndTime(sched)) =>
              /\ 0 <= snap.vestedAmount /\ snap.vestedAmount <= sched.totalAmount
              /\ Querying =>
                    (0 <= snap.unreleased /\ snap.unreleased <= sched.totalAmount)

C7_Witness ==
    /\ VestedComputed /\ Querying /\ sched.totalAmount > 0
    /\ sched.startTime < snap.now /\ snap.now < EndTime(sched)
    /\ snap.unreleased > 0 /\ snap.unreleased <= sched.totalAmount

IsExample ==
    /\ sched.totalAmount = ExampleSchedule.totalAmount
    /\ sched.releasedAmount = ExampleSchedule.releasedAmount
    /\ sched.startTime = ExampleSchedule.startTime
    /\ EndTime(sched) = ExampleSchedule.startTime + ExampleSchedule.duration
    /\ snap.now = ExampleNow

\* floor(totalAmount * (now - startTime) / (endTime - startTime)), exactly.
FloorRatio(n) ==
    (sched.totalAmount * (n - sched.startTime))
        \div (EndTime(sched) - sched.startTime)

\* C8 as stated: vested is 0 when now <= startTime, the exact integer floor of
\* totalAmount * (now - startTime) / (endTime - startTime) when startTime < now
\* < endTime, totalAmount when now >= endTime; total=1000, released=0, start=T,
\* end=T+1000, now=T+500 gives vested=500, releasable=500, locked=500.
C8_AsStated ==
    VestedComputed =>
        /\ snap.now <= sched.startTime => snap.vestedAmount = 0
        /\ (sched.startTime < snap.now /\ snap.now < EndTime(sched))
              => snap.vestedAmount = FloorRatio(snap.now)
        /\ snap.now >= EndTime(sched) => snap.vestedAmount = sched.totalAmount
        /\ (Querying /\ IsExample) =>
              /\ snap.vestedAmount = 500
              /\ snap.releasable = 500
              /\ snap.unreleased = 500

\* C8 (amended): vested is totalAmount when now >= endTime; otherwise 0 when
\* now <= startTime; otherwise the exact integer floor of totalAmount * (now -
\* startTime) / (endTime - startTime).  In the example vested=500 and
\* locked=500; releasable=500 where the client computes it, and is the amount
\* the contract reported where getSchedule supplies it.
C8_ThreePhases ==
    VestedComputed =>
        /\ snap.now >= EndTime(sched) => snap.vestedAmount = sched.totalAmount
        /\ (snap.now < EndTime(sched) /\ snap.now <= sched.startTime)
              => snap.vestedAmount = 0
        /\ (sched.startTime < snap.now /\ snap.now < EndTime(sched))
              => snap.vestedAmount = FloorRatio(snap.now)
        /\ (Querying /\ IsExample) =>
              /\ snap.vestedAmount = 500
              /\ snap.unreleased = 500
              /\ snap.releasable =
                    IF abi = "schedules" THEN 500 ELSE sched.releasable

C8_Witness ==
    /\ Querying /\ snap.computed /\ IsExample
    /\ snap.vestedAmount = 500 /\ snap.unreleased = 500

\* C9: for a zero-duration schedule with totalAmount > 0 no division by zero is
\* executed in the vested-amount or progress computation for any now, and the
\* schedule is fully vested (vested = totalAmount, progress 100%, label
\* 'Fully vested') for every now >= startTime.
C9_ZeroDuration ==
    (op # "none" /\ sched.totalAmount > 0 /\ EndTime(sched) = sched.startTime) =>
        /\ ~snap.divByZero
        /\ snap.progress # NaNPercent
        /\ (VestedComputed /\ snap.now >= sched.startTime)
              => snap.vestedAmount = sched.totalAmount
        /\ (Querying /\ snap.computed /\ snap.now >= sched.startTime) =>
              /\ snap.progress = 100
              /\ snap.timeRemaining.kind = "Fully vested"
              /\ snap.unreleased = 0

C9_Witness ==
    /\ Querying /\ snap.computed /\ sched.totalAmount > 0
    /\ EndTime(sched) = sched.startTime /\ snap.now = sched.startTime
    /\ snap.progress = 100

Max0(x) == IF x < 0 THEN 0 ELSE x

\* C10: raw.releasableAmount returned by getVestingInfo is never negative: it
\* is vested - releasedAmount when that is >= 0 and is clamped to 0 when the
\* schedule read shows releasedAmount > vested; the call does not crash then.
C10_ReleasableNeverNegative ==
    (Querying /\ Returned /\ result.success) =>
        /\ result.raw.releasableAmount >= 0
        /\ abi = "schedules" =>
              result.raw.releasableAmount =
                  Max0(snap.vestedAmount - sched.releasedAmount)

\* The schedule read of the current call resolved with totalAmount = 0.
ScheduleReadEmpty ==
    /\ \E i \in 1 .. Len(log) : log[i] = Step("readSchedule", TRUE)
    /\ sched.totalAmount = 0

\* C11: whenever the schedule read returns totalAmount == 0, getVestingInfo
\* returns the ScheduleNotFound failure and never a success payload with zero
\* amounts; claimVestedTokens returns ScheduleNotFound and submits no release.
C11_EmptyScheduleNotFound ==
    ((Querying \/ Claiming) /\ ScheduleReadEmpty) =>
        /\ pc = "done"
        /\ result = Failure("ScheduleNotFound")
        /\ ~result.success
        /\ ~snap.computed
        /\ tx.submits = 0 /\ ~Did("submit")

C11_Witness ==
    /\ Claiming /\ ScheduleReadEmpty
    /\ result.error = "ScheduleNotFound" /\ tx.submits = 0

\* C12 as stated: every call of getVestingInfo, getAllVestingInfo and
\* claimVestedTokens ends by returning a structured result (success: true, or
\* success: false with an error message) for every fault a collaborator can
\* raise at any step, faults without a message included; no fault escapes the
\* call as an unhandled exception or rejected promise.
C12_NoFaultEscapes ==
    /\ result.status # "threw"
    /\ batch.status # "threw"
    /\ ((Querying \/ Claiming) /\ pc = "done") =>
          (Returned /\ (result.success \/ result.error # ""))
    /\ batch.pc = "done" =>
          (batch.status = "returned" /\ (batch.success \/ batch.error # ""))

\* C13: getAllVestingInfo called with an empty list or a value that is not a
\* list returns the InvalidInput failure immediately, without resolving the
\* wallet address and without issuing any ledger query.
C13_InvalidInputFailsFast ==
    (batch.pc # "idle" /\ (~batch.isList \/ Len(batch.input) = 0)) =>
        /\ batch.pc = "done"
        /\ batch.status = "returned" /\ ~batch.success
        /\ batch.error = "InvalidInput"
        /\ batch.queried = <<>> /\ batch.schedules = <<>>
        /\ op = "getAllVestingInfo" /\ log = <<>> /\ sched = NoSched

C13_Witness ==
    /\ batch.pc = "done" /\ batch.isList /\ batch.input = <<>>
    /\ batch.error = "InvalidInput"

\* The positions 1 .. n in order.
Positions(n) == [k \in 1 .. n |-> k]

\* C14 as stated: for every non-empty list getAllVestingInfo queries every
\* address exactly once in input order, returns success: true however many
\* individual queries fail (no failure aborts the batch or keeps a later
\* address from being queried), returns exactly the successful results as a
\* subsequence in input order, and totalSchedules is their number.
C14_BatchDegradesGracefully ==
    /\ batch.pc = "loop" => batch.queried = Positions(batch.i)
    /\ (batch.pc = "done" /\ batch.isList /\ Len(batch.input) > 0) =>
          /\ batch.status = "returned" /\ batch.success
          /\ batch.queried = Positions(Len(batch.input))
          /\ Len(batch.outcomes) = Len(batch.input)
          /\ batch.schedules =
                SelectSeq(batch.queried, LAMBDA k : batch.outcomes[k])
          /\ batch.totalSchedules = Len(batch.schedules)

ReadOnlySteps == {"metadata", "readSchedule", "compute"}

\* C18: getVestingInfo and getAllVestingInfo perform only read-only ledger
\* queries: no step of them, on a successful or a failing path, unlocks the
\* signing key, submits a release, or changes the on-chain schedule or balance.
C18_QueriesAreReadOnly ==
    [][(op' \in {"getVestingInfo", "getAllVestingInfo"}) =>
          /\ ledger' = ledger
          /\ tx' = NoTx
          /\ \A i \in 1 .. Len(log') : log'[i].step \in ReadOnlySteps]_vars

C18_Witness ==
    /\ batch.pc = "done" /\ batch.totalSchedules = Len(batch.input)
    /\ batch.totalSchedules > 1
    /\ Querying /\ Returned /\ result.success /\ tx = NoTx

\* C15: a failure of any token metadata read is never fatal in getVestingInfo
\* or claimVestedTokens: the call continues to the schedule read with name
\* 'Unknown', symbol 'UNKNOWN' and 18 fractional digits, and its outcome is
\* decided only by the later steps.
C15_MetadataFailureNotFatal ==
    ((Querying \/ Claiming) /\ Failed("metadata")) =>
        /\ meta = "default"
        /\ TokenInfo(meta).name = "Unknown"
        /\ TokenInfo(meta).symbol = "UNKNOWN"
        /\ TokenInfo(meta).decimals = 18
        /\ pc # "metadata"
        /\ pc = "schedule" => (result = NoResult /\ ~Did("readSchedule"))
        /\ pc = "done" => Did("readSchedule")

C15_Witness ==
    /\ Querying /\ Failed("metadata") /\ meta = "default"
    /\ Returned /\ result.success

ProgressDone == calc.fn = "progress" /\ calc.done

\* C16 as stated: the progress percentage equals the integer floor of
\* 100 * (now - startTime) / (endTime - startTime) clamped to [0, 100] for
\* every schedule and every now: 0 when now <= startTime, 100 when now >=
\* endTime, the exact integer floor in between (29 when 29/100 has elapsed).
\* (Where both ends apply, now = startTime = endTime, either value is taken
\* to satisfy it.)
C16_ProgressIsExactFloor ==
    ProgressDone =>
        LET now == calc.nowNum
            startTime == calc.startTimeNum
            endTime == calc.endTimeNum
        IN  /\ (now <= startTime /\ now < endTime) => calc.progress = 0
            /\ (now >= endTime /\ now > startTime) => calc.progress = 100
            /\ (now = startTime /\ now = endTime) => calc.progress \in {0, 100}
            /\ (startTime < now /\ now < endTime) =>
                  calc.progress = (100 * (now - startTime)) \div (endTime - startTime)

\* The least integer not below a / b (a >= 0, b > 0).
Ceiling(a, b) == IF a % b = 0 THEN a \div b ELSE (a \div b) + 1

\* C17: the time-remaining label is 'Fully vested' when now >= endTime;
\* 'Starts in N days' with N = ceil((startTime - now) / 86400) when now <=
\* startTime (and now < endTime); otherwise, with D = ceil((endTime - now) /
\* 86400), 'K months remaining' with K = floor(D / 30) when D > 30 and
\* 'D days remaining' when D <= 30.
C17_TimeRemainingLabel ==
    ProgressDone =>
        LET now == calc.nowNum
            startTime == calc.startTimeNum
            endTime == calc.endTimeNum
            D == Ceiling(endTime - now, 86400)
        IN  /\ now >= endTime =>
                  calc.timeRemaining = [kind |-> "Fully vested", n |-> 0]
            /\ (now < endTime /\ now <= startTime) =>
                  calc.timeRemaining =
                      [kind |-> "Starts in", n |-> Ceiling(startTime - now, 86400)]
            /\ (now < endTime /\ now > startTime /\ D > 30) =>
                  calc.timeRemaining =
                      [kind |-> "months remaining", n |-> D \div 30]
            /\ (now < endTime /\ now > startTime /\ D <= 30) =>
                  calc.timeRemaining = [kind |-> "days remaining", n |-> D]

C17_Witness ==
    /\ ProgressDone
    /\ calc.timeRemaining.kind = "months remaining"
    /\ calc.timeRemaining.n = 2
    /\ (calc.endTimeNum - calc.nowNum) % 86400 # 0

\* Re-encoding: the digits before and after the point read as one integer.
Encode(decimal) == Strip(decimal.intPart \o decimal.decPart)

\* C19 as stated: for every non-negative base-unit amount and every
\* non-negative digit count d, the decimal produced by the decode step (point d
\* digits from the right, left-padded with zeros) re-encodes exactly to the
\* original integer, integerPart * 10^d + fractionalPart == amount, with no
\* digit lost or changed.
C19_DecodeRoundTrips ==
    (calc.fn = "decode" /\ calc.done /\ ~calc.threw) =>
        /\ Len(calc.decoded.decPart) = calc.decimals
        /\ Encode(calc.decoded) = calc.amount

\* Every payload a launch the endpoint reported can have, for these options.
RealSuccesses(options) ==
    { LaunchSuccess(options, api) : api \in ApiResults }

\* C20: when the launch endpoint is unreachable, the result launchCoin returns
\* is distinguishable from the result of a real successful launch: it is never
\* equal to a payload a real launch can have, so a caller inspecting it (its
\* message and note) can tell that no coin was deployed.
C20_StubDistinguishable ==
    (launch.pc = "done" /\ launch.unreachable) =>
        /\ launch.result \notin RealSuccesses(launch.options)
        /\ launch.result.message # "Coin launched successfully!"
        /\ (launch.result.status = "returned" /\ launch.result.success)
              => launch.result.note # ""

C20_Witness ==
    /\ launch.pc = "done" /\ launch.unreachable
    /\ launch.result.success /\ launch.result.coin.status = "launched"
    /\ launch.result.note # ""

\* The key-unlock step of the current call failed.
UnlockStepFailed == log # <<>> /\ log[1] = Step("unlock", FALSE)

\* C21: claimVestedTokens reports InvalidPassword if and only if the key-unlock
\* step failed: a fault of a ledger step is never classified as
\* InvalidPassword, whatever its message contains, and InvalidPassword is
\* never returned after a release has been submitted.
C21_InvalidPasswordIffUnlockFailed ==
    (Claiming /\ Returned) =>
        /\ (result.error = "InvalidPassword") <=> UnlockStepFailed
        /\ (result.error = "InvalidPassword") => tx.submits = 0

\* What a call returns when validation stops it: the failure, with no
\* collaborator step performed and nothing left to run.
StoppedWith(error) ==
    /\ pc' = "done"
    /\ result' = Failure(error)
    /\ log' = <<>>
    /\ tx' = NoTx

\* C22: input validation precedes every collaborator effect and is ordered
\* NoWallet, then InvalidTokenAddress: with no wallet getVestingInfo and
\* claimVestedTokens return NoWallet whatever the token address; with a wallet
\* and a missing or malformed token address they return InvalidTokenAddress
\* without any ledger query and, for the claim, without unlocking the key.
C22_ValidationOrder ==
    [][\A a \in BOOLEAN, p \in BOOLEAN :
          (GetVestingInfoStart(a) \/ ClaimStart(a, p)) =>
              /\ ~hasWallet => StoppedWith("NoWallet")
              /\ (hasWallet /\ ~a) => StoppedWith("InvalidTokenAddress")]_vars

C22_Witness ==
    /\ Claiming /\ hasWallet /\ pc = "done"
    /\ result = Failure("InvalidTokenAddress")
    /\ log = <<>>

\* C23: every successful getVestingInfo result is a snapshot at one reference
\* instant, even if the clock advances during the call: for totalAmount > 0
\* the result has progress 100% and the label 'Fully vested' exactly when its
\* raw lockedAmount is 0, and has progress 0% with a 'Starts in' label only
\* when its raw lockedAmount equals totalAmount.
C23_SingleInstantSnapshot ==
    (Querying /\ Returned /\ result.success /\ result.raw.totalAmount > 0) =>
        /\ (result.progress = 100 /\ result.timeRemaining.kind = "Fully vested")
              <=> result.raw.lockedAmount = 0
        /\ (result.progress = 0 /\ result.timeRemaining.kind = "Starts in")
              => result.raw.lockedAmount = result.raw.totalAmount

\* release() resolved in the current call: the transaction went out.
ReleaseSubmitted == \E i \in 1 .. Len(log) : log[i] = Step("submit", TRUE)

\* C24: if claimVestedTokens returns a failure result, no release transaction
\* was submitted during that call: once the release has been submitted, a
\* later fault (the confirmation wait, the balance re-read) never makes the
\* call report a plain failure while the release may have taken effect.
C24_FailureMeansNoRelease ==
    (Claiming /\ Returned /\ ~result.success) =>
        /\ ~ReleaseSubmitted
        /\ ~tx.landed

\* C25: in every successful getVestingInfo result the raw amounts balance:
\* raw.releasableAmount + raw.releasedAmount + raw.lockedAmount equals
\* raw.totalAmount, where the client computes releasable and where it takes
\* releasable from the contract while computing locked from the local clock.
C25_RawAmountsBalance ==
    (Querying /\ Returned /\ result.success) =>
        result.raw.releasableAmount + result.raw.releasedAmount
            + result.raw.lockedAmount = result.raw.totalAmount

====
